---- MODULE Spec2Model ----
(***************************************************************************)
(* Model of the fractal viewer: FractalViewer (the view/controller), the   *)
(* escape-time fractal classes' render() (GPU attempt, then the chunked    *)
(* CPU pixel-fill loop) and WebGLRenderer.render.                          *)
(*                                                                         *)
(* JavaScript runs every task to completion, so one action is one task:    *)
(* an event handler, or an async function from the point it resumes to its *)
(* next `await setTimeout(...)` (or to its end, including the microtask    *)
(* continuation of the awaiting caller).                                   *)
(***************************************************************************)
EXTENDS Integers, Sequences, FiniteSets, TLC

\* ------------------------------------------------------------------ bounds
MaxWidth == 2
MaxHeight == 41
MaxRenders == 2
MaxPrograms == 3
MaxBuffers == 3
MaxCoordinate == 2
MaxKernelIterations == 4
MaxGeometricIterations == 170
NativeBits == 8
DecimalDigits == 3
MaxQuarters == 4
MaxTierIterations == 6
MaxInputs == 3
MaxClock == 450

\* ------------------------------------------------------- program constants
chunkSize == 20
TwoPow20 == 1048576
ShaderLoopCap == 1000
DebounceDelay == 150

\* --------------------------------------------------------------- rationals
\* Percentages (py / height * 100) and zoom factors (1.2, 1.5) are held as
\* exact fractions n/d with d > 0.
Rat(n, d) == [n |-> n, d |-> d]
RatLt(a, b) == a.n * b.d < b.n * a.d
RatMul(a, b) == Rat(a.n * b.n, a.d * b.d)
RatDiv(a, b) == IF b.n < 0 THEN Rat(-(a.n * b.d), -(a.d * b.n))
                ELSE Rat(a.n * b.d, a.d * b.n)
RatAdd(a, b) == Rat(a.n * b.d + b.n * a.d, a.d * b.d)
RatSub(a, b) == Rat(a.n * b.d - b.n * a.d, a.d * b.d)
RatEq(a, b) == a.n * b.d = b.n * a.d

VARIABLES
    fractalType,      \* viewer.fractalType
    zoom,             \* viewer.zoom (a fraction)
    maxIterations,    \* viewer.maxIterations
    colorScheme,      \* viewer.colorScheme
    canvas,           \* [width, height] of viewer.canvas
    decimalLoaded,    \* whether window.Decimal is defined
    webgl,            \* the WebGLRenderer (see NewRenderer)
    loading,          \* loading.classList contains 'active'
    progress,         \* the value last passed to updateProgress
    renders,          \* one record per call of FractalViewer.render, in call order
    canvasImage,      \* what the canvas shows: [source, render]
    kernel,           \* one call of a fractal's calculate (see KernelCall)
    share,            \* one encodeState / decodeStateFromURL round (see NoShare)
    tiers,            \* one Julia point evaluated in both tiers (see NoTiers)
    shader,           \* one fragment of a GPU draw beside the CPU (see NoShader)
    debounce          \* debouncedRender's timer and clock (see NoDebounce)

vars == <<fractalType, zoom, maxIterations, colorScheme, canvas, decimalLoaded,
          webgl, loading, progress, renders, canvasImage, kernel, share,
          tiers, shader, debounce>>

\* ------------------------------------------------------------ input sets
\* Values the URL query string, the menu controls and the window can supply.
FractalTypes == {"mandelbrot", "julia", "burning_ship"}
EscapeTimeFractals == {"mandelbrot", "julia", "burning_ship"}
GeometricFractals == {"koch", "sierpinski", "dragon", "barnsley", "menger"}
ObjectPrototypeKeys == {"constructor", "toString", "valueOf", "hasOwnProperty",
                        "isPrototypeOf", "propertyIsEnumerable",
                        "toLocaleString", "__proto__"}
ColorSchemes == {"default", "cosine", "hsl"}
IterationChoices == {100, ShaderLoopCap, ShaderLoopCap + 1}
MenuIterations == {100, ShaderLoopCap + 1}
MenuSchemes == {"default", "hsl"}
ZoomChoices == {Rat(1, 1), Rat(TwoPow20, 1), Rat(TwoPow20 + 1, 1)}
WindowSizes == {<<1, 1>>, <<MaxWidth, chunkSize + 1>>}
\* Values of the query string that the menus do not offer: decodeStateFromURL
\* assigns whatever type, color and (parseFloat) z the URL carries.
UrlTypes == FractalTypes \cup {"koch", "nosuch", "constructor"}
UrlSchemes == ColorSchemes \cup {"continuous", "nosuch"}
UrlZooms == {Rat(1, 1), Rat(0, 1), Rat(-2, 1)}

\* ------------------------------------------------------- pure operators
\* const useArbitraryPrecision = this.viewer.zoom > Math.pow(2, 20)
NeedsHighPrecision(z) == RatLt(Rat(TwoPow20, 1), z)

\* Which arithmetic a CPU render of this family uses for its pixels: only
\* JuliaFractal.render has a Decimal branch, taken when the flag computed
\* before the loop is set and window.Decimal is defined.
PixelTier(family, useArbitraryPrecision, Decimal) ==
    IF family = "julia" /\ useArbitraryPrecision /\ Decimal
    THEN "decimal" ELSE "native"

\* getColor's switch: a scheme it does not list falls to getColorDefault.
GetColorScheme(scheme) ==
    IF scheme \in {"default", "cosine", "continuous", "hsl", "golden",
                   "cubehelix", "grayscale", "bezier", "complementary",
                   "triadic", "stripe"}
    THEN scheme ELSE "default"

\* ------------------------------------------------------ numeric kernels
\* The kernels are evaluated on points with integer coordinates, where the
\* arithmetic of the code is exact.
Abs(v) == IF v < 0 THEN -v ELSE v
Magnitude(x, y) == x * x + y * y

\* Faulty variant: the orbit is stopped on the circle of radius 2 already.
LoopContinuesInside(x, y, iteration, max) ==
    Magnitude(x, y) < 4 /\ iteration < max

\* while (x * x + y * y <= 4 && iteration < this.viewer.maxIterations)
LoopContinues(x, y, iteration, max) ==
    Magnitude(x, y) <= 4 /\ iteration < max

\* Faulty variant: calculateHighPrecision breaks on magnitude.gte(four).
HighPrecisionBreaksOnCircle(x, y, iteration, max) ==
    iteration < max /\ ~(Magnitude(x, y) >= 4)

\* calculateHighPrecision: while (iteration < maxIterations) {
\*     magnitude = x2 + y2; if (magnitude.gt(four)) break; ... }
HighPrecisionContinues(x, y, iteration, max) ==
    iteration < max /\ ~(Magnitude(x, y) > 4)

\* MandelbrotFractal.calculate: xtemp = x*x - y*y + cx; y = 2*x*y + cy
MandelbrotStep(x, y, cx, cy) ==
    [x |-> x * x - y * y + cx, y |-> 2 * x * y + cy]

\* JuliaFractal.calculate: the same step with the Julia constant
JuliaStep(x, y, juliaReal, juliaImag) ==
    [x |-> x * x - y * y + juliaReal, y |-> 2 * x * y + juliaImag]

\* JuliaFractal.calculateHighPrecision: x2.minus(y2).plus(cReal),
\* two.times(x).times(y).plus(cImag)
HighPrecisionStep(x, y, cReal, cImag) ==
    LET x2 == x * x
        y2 == y * y
    IN [x |-> (x2 - y2) + cReal, y |-> ((2 * x) * y) + cImag]

\* Faulty variant: no folding.
BurningShipStepUnfolded(x, y, cx, cy) ==
    [x |-> x * x - y * y + cx, y |-> 2 * x * y + cy]

\* BurningShipFractal.calculate: x = Math.abs(x); y = Math.abs(y); then the
\* Mandelbrot step
BurningShipStep(x, y, cx, cy) ==
    LET ax == Abs(x)
        ay == Abs(y)
    IN [x |-> ax * ax - ay * ay + cx, y |-> 2 * ax * ay + cy]

KernelFamilies == {"mandelbrot", "julia", "burning_ship", "julia_hp"}

Continues(family, x, y, iteration, max) ==
    IF family = "julia_hp" THEN HighPrecisionContinues(x, y, iteration, max)
    ELSE LoopContinues(x, y, iteration, max)

Step(family, x, y, cx, cy) ==
    IF family = "mandelbrot" THEN MandelbrotStep(x, y, cx, cy)
    ELSE IF family = "burning_ship" THEN BurningShipStep(x, y, cx, cy)
    ELSE IF family = "julia" THEN JuliaStep(x, y, cx, cy)
    ELSE HighPrecisionStep(x, y, cx, cy)

\* Faulty variant: the smooth component is added to every count.
SmoothsAlways(iteration, max) == iteration <= max

\* if (iteration < this.viewer.maxIterations) { ...smooth component... }
Smooths(iteration, max) == iteration < max

\* The value calculate returns: the raw count, or raw + 1 - nu where
\* nu = log2(log2(magnitude) / 2); the magnitude stands for nu.
ReturnValue(iteration, max, magnitude) ==
    IF Smooths(iteration, max)
    THEN [raw |-> iteration, smoothed |-> TRUE, magnitude |-> magnitude]
    ELSE [raw |-> iteration, smoothed |-> FALSE, magnitude |-> 0]

\* nu <= k for an integer k <= 1: nu is NaN for magnitude 0 (no comparison
\* holds), -Infinity for magnitude 1, and otherwise nu <= k exactly when
\* magnitude <= 2^(2^(k+1)), which is 16 for k = 1, 4 for k = 0, 2 for
\* k = -1 and less than 2 below that.
NuAtMost(magnitude, k) ==
    IF magnitude = 0 THEN FALSE
    ELSE IF magnitude = 1 THEN TRUE
    ELSE IF k = 1 THEN magnitude <= 16
    ELSE IF k = 0 THEN magnitude <= 4
    ELSE IF k = -1 THEN magnitude <= 2
    ELSE FALSE

\* iteration >= this.maxIterations, for a value calculate returned:
\* raw + 1 - nu >= max exactly when nu <= raw + 1 - max
AtLeastMax(value, max) ==
    IF value.smoothed
    THEN NuAtMost(value.magnitude, value.raw + 1 - max)
    ELSE value.raw >= max

\* getColor(iteration): black for iteration >= maxIterations, otherwise the
\* colour the scheme gives to t = iteration / maxIterations.
GetColor(value, max, scheme) ==
    IF AtLeastMax(value, max) THEN <<0, 0, 0>>
    ELSE <<GetColorScheme(scheme), value>>

\* One call of calculate(zx, zy):
\*   pc     "none" (no call), "loop" (at the loop test), "returned"
\*   from   the orbit position and count the last step was taken from
NoKernelCall ==
    [pc |-> "none", family |-> "none", cx |-> 0, cy |-> 0,
     maxIterations |-> 0, x |-> 0, y |-> 0, iteration |-> 0,
     from |-> <<>>, value |-> <<>>]

KernelCall(family, zx, zy, juliaReal, juliaImag, max) ==
    IF family \in {"julia", "julia_hp"}
    THEN [NoKernelCall EXCEPT !.pc = "loop", !.family = family,
                              !.x = zx, !.y = zy,
                              !.cx = juliaReal, !.cy = juliaImag,
                              !.maxIterations = max]
    ELSE [NoKernelCall EXCEPT !.pc = "loop", !.family = family,
                              !.cx = zx, !.cy = zy,
                              !.maxIterations = max]

\* ------------------------------------------------ rounded arithmetic
\* A number of a tier is m * base^e with a mantissa m of exactly `digits`
\* digits (or zero); exact says that no operation on the way to it rounded.
\* The native tier is binary and rounds ties to even; Decimal is decimal and
\* rounds ties away from zero (ROUND_HALF_UP). The mantissas are NativeBits
\* and DecimalDigits long instead of 53 bits and 20 digits.
NativeTier == [base |-> 2, digits |-> NativeBits, ties |-> "even"]
DecimalTier == [base |-> 10, digits |-> DecimalDigits, ties |-> "up"]

RECURSIVE Pow(_, _)
Pow(b, k) == IF k = 0 THEN 1 ELSE b * Pow(b, k - 1)

\* n / q rounded to the nearest integer.
RoundDiv(n, q, ties) ==
    LET a == Abs(n)
        f == a \div q
        r == a % q
        up == 2 * r > q \/ (2 * r = q /\ (ties = "up" \/ f % 2 = 1))
        rounded == IF up THEN f + 1 ELSE f
    IN IF n < 0 THEN -rounded ELSE rounded

\* The number of digits a has beyond those below limit.
RECURSIVE ExcessDigits(_, _, _)
ExcessDigits(a, base, limit) ==
    IF a < limit THEN 0 ELSE 1 + ExcessDigits(a \div base, base, limit)

\* The number of digits a nonzero a lacks to reach floor.
RECURSIVE MissingDigits(_, _, _)
MissingDigits(a, base, floor) ==
    IF a >= floor THEN 0 ELSE 1 + MissingDigits(a * base, base, floor)

\* n * base^e rounded to the tier.
FloatRound(tier, n, e, exact) ==
    IF n = 0 THEN [m |-> 0, e |-> 0, exact |-> exact]
    ELSE LET limit == Pow(tier.base, tier.digits)
             up == MissingDigits(Abs(n), tier.base, limit \div tier.base)
             k == ExcessDigits(Abs(n), tier.base, limit)
             q == Pow(tier.base, k)
             m == RoundDiv(n, q, tier.ties)
         IN IF up > 0
            THEN [m |-> n * Pow(tier.base, up), e |-> e - up, exact |-> exact]
            ELSE IF Abs(m) = limit
            THEN [m |-> m \div tier.base, e |-> e + k + 1,
                  exact |-> exact /\ n % q = 0]
            ELSE [m |-> m, e |-> e + k, exact |-> exact /\ n % q = 0]

FloatNeg(a) == [a EXCEPT !.m = -a.m]

\* a * b (Decimal's times)
FloatMul(tier, a, b) ==
    FloatRound(tier, a.m * b.m, a.e + b.e, a.exact /\ b.exact)

\* a + b (Decimal's plus); an operand more than digits + 1 places below the
\* other only decides the direction of rounding.
FloatAdd(tier, a, b) ==
    LET exact == a.exact /\ b.exact
        hi == IF a.e >= b.e THEN a ELSE b
        lo == IF a.e >= b.e THEN b ELSE a
        d == hi.e - lo.e
    IN IF a.m = 0 THEN [b EXCEPT !.exact = exact]
       ELSE IF b.m = 0 THEN [a EXCEPT !.exact = exact]
       ELSE IF d <= tier.digits + 1
       THEN FloatRound(tier, hi.m * Pow(tier.base, d) + lo.m, lo.e, exact)
       ELSE FloatRound(tier,
                       hi.m * tier.base * tier.base
                           + (IF lo.m > 0 THEN 1 ELSE -1),
                       hi.e - 2, FALSE)

\* a > 4 (x * x + y * y <= 4 is its negation; magnitude.gt(four))
ExceedsFour(tier, a) ==
    IF a.m <= 0 THEN FALSE
    ELSE IF a.e >= 0 THEN TRUE
    ELSE IF -a.e > tier.digits THEN FALSE
    ELSE a.m > 4 * Pow(tier.base, -a.e)

\* The number k / 4 in a tier: a canvas coordinate or Julia constant that
\* both tiers hold exactly.
Quarters(tier, k) ==
    IF tier.base = 2 THEN FloatRound(tier, k, -2, TRUE)
    ELSE FloatRound(tier, 25 * k, -2, TRUE)

\* x * x + y * y
FloatMagnitude(tier, x, y) ==
    FloatAdd(tier, FloatMul(tier, x, x), FloatMul(tier, y, y))

\* JuliaFractal.calculate's loop in the native tier: the raw count, and
\* whether every value computed was exact.
RECURSIVE NativeCount(_, _, _, _, _, _, _)
NativeCount(x, y, juliaReal, juliaImag, iteration, max, exact) ==
    LET t == NativeTier
        magnitude == FloatMagnitude(t, x, y)
        x2y2 == FloatAdd(t, FloatMul(t, x, x), FloatNeg(FloatMul(t, y, y)))
        xtemp == FloatAdd(t, x2y2, juliaReal)
        twox == FloatMul(t, FloatRound(t, 2, 0, TRUE), x)
        ynext == FloatAdd(t, FloatMul(t, twox, y), juliaImag)
    IN IF ~ExceedsFour(t, magnitude) /\ iteration < max
       THEN NativeCount(xtemp, ynext, juliaReal, juliaImag, iteration + 1, max,
                        exact /\ magnitude.exact)
       ELSE [count |-> iteration,
             exact |-> exact /\ magnitude.exact /\ x.exact /\ y.exact]

\* Faulty variant: the orbit is stopped on the circle of radius 2 already.
HighPrecisionEscapedOnCircle(magnitude) ==
    \/ ExceedsFour(DecimalTier, magnitude)
    \/ magnitude.m = 4 * Pow(10, DecimalDigits - 1) /\ magnitude.e = 1 - DecimalDigits

\* magnitude.gt(four)
HighPrecisionEscaped(magnitude) == ExceedsFour(DecimalTier, magnitude)

\* JuliaFractal.calculateHighPrecision's loop in the Decimal tier.
RECURSIVE HighPrecisionCount(_, _, _, _, _, _, _)
HighPrecisionCount(x, y, cReal, cImag, iteration, max, exact) ==
    LET t == DecimalTier
        x2 == FloatMul(t, x, x)
        y2 == FloatMul(t, y, y)
        magnitude == FloatAdd(t, x2, y2)
        xtemp == FloatAdd(t, FloatAdd(t, x2, FloatNeg(y2)), cReal)
        twox == FloatMul(t, FloatRound(t, 2, 0, TRUE), x)
        ynext == FloatAdd(t, FloatMul(t, twox, y), cImag)
    IN IF iteration < max /\ ~HighPrecisionEscaped(magnitude)
       THEN HighPrecisionCount(xtemp, ynext, cReal, cImag, iteration + 1, max,
                               exact /\ magnitude.exact)
       ELSE [count |-> iteration,
             exact |-> exact /\ magnitude.exact /\ x.exact /\ y.exact]

\* One comparison: the inputs in quarters, and after the two calls their
\* raw counts.
NoTiers == [pc |-> "none", zx |-> 0, zy |-> 0, juliaReal |-> 0, juliaImag |-> 0,
            maxIterations |-> 0, native |-> <<>>, decimal |-> <<>>]

\* --------------------------------------------- a fragment beside the CPU
\* Either a screen pixel to be mapped to the plane by both paths, or the
\* iteration loops of a shader and of calculate side by side on one input
\* point. Points of the loops have integer coordinates.
NoShader ==
    [pc |-> "none", family |-> "none", width |-> 0, height |-> 0,
     centerX |-> 0, centerY |-> 0, zoom |-> Rat(1, 1), px |-> 0, py |-> 0,
     gpuPoint |-> <<>>, cpuPoint |-> <<>>,
     cx |-> 0, cy |-> 0, maxIterations |-> 0, i |-> 0,
     gpu |-> [x |-> 0, y |-> 0, iteration |-> 0],
     cpu |-> [x |-> 0, y |-> 0, iteration |-> 0],
     result |-> <<>>]

\* float scale = 3.5 / (u_zoom * u_resolution.x), and
\* const scale = 3.5 / (this.viewer.zoom * width)
PlaneScale(z, width) == RatDiv(Rat(7, 2), RatMul(z, Rat(width, 1)))

\* x0 = centerX + (px - width / 2) * scale; y0 likewise with py and height.
CpuPoint(px, py, width, height, centerX, centerY, z) ==
    LET scale == PlaneScale(z, width)
    IN [x |-> RatAdd(Rat(centerX, 1),
                     RatMul(RatSub(Rat(px, 1), Rat(width, 2)), scale)),
        y |-> RatAdd(Rat(centerY, 1),
                     RatMul(RatSub(Rat(py, 1), Rat(height, 2)), scale))]

\* gl_FragCoord of the fragment drawn at column px, row py from the top-left
\* of a viewport of the canvas's size: window coordinates start at the
\* bottom-left corner and name the centre of the pixel.
FragCoord(px, py, height) ==
    [x |-> Rat(2 * px + 1, 2), y |-> Rat(2 * (height - py) - 1, 2)]

\* x0 = u_center.x + (gl_FragCoord.x - u_resolution.x / 2.0) * scale; y0
\* likewise.
ShaderPoint(fragCoord, width, height, centerX, centerY, z) ==
    LET scale == PlaneScale(z, width)
    IN [x |-> RatAdd(Rat(centerX, 1),
                     RatMul(RatSub(fragCoord.x, Rat(width, 2)), scale)),
        y |-> RatAdd(Rat(centerY, 1),
                     RatMul(RatSub(fragCoord.y, Rat(height, 2)), scale))]

\* for (int i = 0; i < 1000; i++) { if (i >= u_maxIterations) break;
\*     if (x * x + y * y > 4.0) break; ... }
ShaderContinues(i, x, y, max) ==
    i < ShaderLoopCap /\ i < max /\ Magnitude(x, y) <= 4

\* The loop bodies of the three shaders: the recurrences of the kernels.
ShaderStep(family, x, y, cx, cy) ==
    IF family = "mandelbrot"
    THEN [x |-> x * x - y * y + cx, y |-> 2 * x * y + cy]
    ELSE IF family = "julia"
    THEN [x |-> x * x - y * y + cx, y |-> 2 * x * y + cy]
    ELSE [x |-> Abs(x) * Abs(x) - Abs(y) * Abs(y) + cx,
          y |-> 2 * Abs(x) * Abs(y) + cy]

\* if (iteration < maxIter) { ...smooth component... } in the shaders
ShaderValue(iteration, max, magnitude) ==
    IF iteration < max
    THEN [raw |-> iteration, smoothed |-> TRUE, magnitude |-> magnitude]
    ELSE [raw |-> iteration, smoothed |-> FALSE, magnitude |-> 0]

\* The two loops before their first test. The Julia loops start at the
\* input point and add the Julia constant; the others start at 0 and add
\* the input point.
ShaderLoops(family, zx, zy, juliaReal, juliaImag, max) ==
    LET start == IF family = "julia"
                 THEN [x |-> zx, y |-> zy, iteration |-> 0]
                 ELSE [x |-> 0, y |-> 0, iteration |-> 0]
    IN [NoShader EXCEPT
          !.pc = "loop", !.family = family, !.maxIterations = max,
          !.cx = IF family = "julia" THEN juliaReal ELSE zx,
          !.cy = IF family = "julia" THEN juliaImag ELSE zy,
          !.gpu = start, !.cpu = start]

\* ------------------------------------------------------ debouncedRender
\* The clock in ms, this.colorDebounceTimer (0 for null), the timers that are
\* set and have neither fired nor been cleared, and the bursts of inputs: a
\* burst ends when the next input comes DebounceDelay or more after its last
\* one. closed holds the number of renders each ended burst has started,
\* after the delays after the last input at which renders were started.
NoDebounce ==
    [now |-> 0, colorDebounceTimer |-> 0, nextTimer |-> 1, timers |-> {},
     lastInput |-> -1, inputs |-> 0, burstInputs |-> 0, burstRenders |-> 0,
     closed |-> {}, after |-> {}]

\* Faulty variant: the existing timer is left to run.
ClearNoTimeout(timers, id) == timers

\* clearTimeout(id): the timer, if it is still set, will not fire.
ClearTimeout(timers, id) == {t \in timers : t.id # id}

\* setTimeout(callback, delay) at time now, returning id.
SetTimeout(timers, id, now, delay) ==
    timers \cup {[id |-> id, due |-> now + delay]}


\* ------------------------------------------------------ shareable state
\* Numbers with at most one decimal are held in tenths (-0.5 is -5); a
\* string is the sequence of its characters.
Digits == <<"0", "1", "2", "3", "4", "5", "6", "7", "8", "9">>
IsDigit(c) == \E d \in 1..10 : Digits[d] = c
DigitValue(c) == (CHOOSE d \in 1..10 : Digits[d] = c) - 1

RECURSIVE NatToString(_)
NatToString(n) ==
    IF n < 10 THEN <<Digits[n + 1]>>
    ELSE NatToString(n \div 10) \o <<Digits[(n % 10) + 1]>>

\* Number.prototype.toString of an integer
IntToString(n) ==
    IF n < 0 THEN <<"-">> \o NatToString(-n) ELSE NatToString(n)

\* Number.prototype.toString of a number held in tenths
NumberToString(v) ==
    LET a == IF v < 0 THEN -v ELSE v
    IN (IF v < 0 THEN <<"-">> ELSE <<>>)
       \o NatToString(a \div 10)
       \o (IF a % 10 = 0 THEN <<>> ELSE <<".", Digits[(a % 10) + 1]>>)

\* The value of the longest prefix of s made of digits, and its length.
RECURSIVE DigitsPrefix(_, _, _)
DigitsPrefix(s, i, acc) ==
    IF i <= Len(s) /\ IsDigit(s[i])
    THEN DigitsPrefix(s, i + 1, acc * 10 + DigitValue(s[i]))
    ELSE [value |-> acc, next |-> i]

\* parseInt(s): an optional sign and the digits that follow; "NaN" without
\* a digit.
ParseInt(s) ==
    LET negative == Len(s) >= 1 /\ s[1] = "-"
        start == IF negative THEN 2 ELSE 1
        int == DigitsPrefix(s, start, 0)
    IN IF int.next = start THEN "NaN"
       ELSE IF negative THEN -int.value ELSE int.value

\* parseFloat(s), in tenths: sign, digits, and a first decimal if a point and
\* a digit follow.
ParseFloat(s) ==
    LET negative == Len(s) >= 1 /\ s[1] = "-"
        start == IF negative THEN 2 ELSE 1
        int == DigitsPrefix(s, start, 0)
        decimal == IF /\ int.next + 1 <= Len(s)
                      /\ s[int.next] = "."
                      /\ IsDigit(s[int.next + 1])
                   THEN DigitValue(s[int.next + 1]) ELSE 0
        tenths == int.value * 10 + decimal
    IN IF int.next = start THEN "NaN"
       ELSE IF negative THEN -tenths ELSE tenths

\* `${c.r},${c.g},${c.b}`
ColorToString(c) ==
    IntToString(c.r) \o <<",">> \o IntToString(c.g) \o <<",">> \o IntToString(c.b)

\* s.split(',').map(Number), for the first three fields
ParseColor(s) ==
    LET r == DigitsPrefix(s, 1, 0)
        g == DigitsPrefix(s, r.next + 1, 0)
        b == DigitsPrefix(s, g.next + 1, 0)
    IN [r |-> r.value, g |-> g.value, b |-> b.value]

\* The constructor's values of the shareable fields.
DefaultBezierColors ==
    <<[r |-> 10, g |-> 20, b |-> 100], [r |-> 0, g |-> 150, b |-> 200],
      [r |-> 255, g |-> 220, b |-> 50], [r |-> 200, g |-> 50, b |-> 10]>>

DefaultState ==
    [fractalType |-> "mandelbrot", centerX |-> -5, centerY |-> 0, zoom |-> 10,
     maxIterations |-> 100, colorScheme |-> "default",
     cosineBaseColor |-> [r |-> 128, g |-> 128, b |-> 255],
     cosineAccentColor |-> [r |-> 255, g |-> 128, b |-> 128],
     hslStartHue |-> 240, hslEndHue |-> 0,
     bezierColors |-> DefaultBezierColors,
     complementaryHue |-> 220, triadicHue |-> 0, cubehelixRotations |-> -15,
     juliaReal |-> -4, juliaImag |-> 6]

\* encodeState(): the parameters set, as a function from key to string.
EncodeState(v) ==
    LET always == {"type", "cx", "cy", "z", "iter", "color"}
        julia == IF v.fractalType = "julia" THEN {"jr", "ji"} ELSE {}
        scheme == IF v.colorScheme = "cosine" THEN {"c1", "c2"}
                  ELSE IF v.colorScheme = "hsl" THEN {"h1", "h2"}
                  ELSE IF v.colorScheme = "complementary" THEN {"ch"}
                  ELSE IF v.colorScheme = "triadic" THEN {"th"}
                  ELSE IF v.colorScheme = "cubehelix" THEN {"chr"}
                  ELSE {}
    IN [key \in always \cup julia \cup scheme |->
           CASE key = "type" -> v.fractalType
             [] key = "cx" -> NumberToString(v.centerX)
             [] key = "cy" -> NumberToString(v.centerY)
             [] key = "z" -> NumberToString(v.zoom)
             [] key = "iter" -> IntToString(v.maxIterations)
             [] key = "color" -> v.colorScheme
             [] key = "jr" -> NumberToString(v.juliaReal)
             [] key = "ji" -> NumberToString(v.juliaImag)
             [] key = "c1" -> ColorToString(v.cosineBaseColor)
             [] key = "c2" -> ColorToString(v.cosineAccentColor)
             [] key = "h1" -> IntToString(v.hslStartHue)
             [] key = "h2" -> IntToString(v.hslEndHue)
             [] key = "ch" -> IntToString(v.complementaryHue)
             [] key = "th" -> IntToString(v.triadicHue)
             [] key = "chr" -> NumberToString(v.cubehelixRotations)]

\* decodeStateFromURL(): each parameter present overwrites its field of v.
DecodeState(v, params) ==
    LET has(key) == key \in DOMAIN params
    IN [fractalType |-> IF has("type") THEN params["type"] ELSE v.fractalType,
        centerX |-> IF has("cx") THEN ParseFloat(params["cx"]) ELSE v.centerX,
        centerY |-> IF has("cy") THEN ParseFloat(params["cy"]) ELSE v.centerY,
        zoom |-> IF has("z") THEN ParseFloat(params["z"]) ELSE v.zoom,
        maxIterations |-> IF has("iter") THEN ParseInt(params["iter"])
                          ELSE v.maxIterations,
        colorScheme |-> IF has("color") THEN params["color"] ELSE v.colorScheme,
        juliaReal |-> IF has("jr") THEN ParseFloat(params["jr"]) ELSE v.juliaReal,
        juliaImag |-> IF has("ji") THEN ParseFloat(params["ji"]) ELSE v.juliaImag,
        cosineBaseColor |-> IF has("c1") THEN ParseColor(params["c1"])
                            ELSE v.cosineBaseColor,
        cosineAccentColor |-> IF has("c2") THEN ParseColor(params["c2"])
                              ELSE v.cosineAccentColor,
        hslStartHue |-> IF has("h1") THEN ParseInt(params["h1"]) ELSE v.hslStartHue,
        hslEndHue |-> IF has("h2") THEN ParseInt(params["h2"]) ELSE v.hslEndHue,
        bezierColors |-> v.bezierColors,
        complementaryHue |-> IF has("ch") THEN ParseInt(params["ch"])
                             ELSE v.complementaryHue,
        triadicHue |-> IF has("th") THEN ParseInt(params["th"]) ELSE v.triadicHue,
        cubehelixRotations |-> IF has("chr") THEN ParseFloat(params["chr"])
                               ELSE v.cubehelixRotations]

\* One round: pc is "none", "state" (a viewer state to share), "encoded"
\* (params holds its query string) or "decoded" (fresh holds the state of a
\* new viewer that decoded params).
NoShare == [pc |-> "none", state |-> <<>>, params |-> <<>>, fresh |-> <<>>]

\* Faulty variant: rows and columns exchanged in the offset.
PixelIndexTransposed(px, py, width) == (px * width + py) * 4

\* const index = (py * width + px) * 4
PixelIndex(px, py, width) == (py * width + px) * 4

\* Faulty variant: the division by height left out.
ProgressNoDivision(py, height) == Rat(py * 100, 1)

\* const progress = (py / height) * 100
Progress(py, height) == Rat(py * 100, height)

\* Faulty variant: the test made on the number of completed rows.
ShouldYieldOnCompleted(py) == (py + 1) % chunkSize = 0

\* if (py % chunkSize === 0)
ShouldYield(py) == py % chunkSize = 0

\* createImageData(width, height): every pixel transparent black.
BlankPixel == [mapping |-> "none", kernel |-> "none", scheme |-> "none", a |-> 0]
CreateImageData(width, height) ==
    [i \in {4 * k : k \in 0..(width * height - 1)} |-> BlankPixel]

\* data[index] = r; data[index+1] = g; data[index+2] = b; data[index+3] = 255
\* (a store outside a typed array's range is ignored).
WritePixel(data, index, pixel) ==
    IF index \in DOMAIN data THEN [data EXCEPT ![index] = pixel] ELSE data

\* The pixel one iteration of the inner loop computes: the coordinate mapping
\* and the kernel in the render's tier, the colour by the scheme the viewer
\* holds when getColor runs.
ComputePixel(r) ==
    LET tier == PixelTier(r.fractalType, r.useArbitraryPrecision, decimalLoaded)
    IN [mapping |-> tier, kernel |-> tier,
        scheme |-> GetColorScheme(colorScheme), a |-> 255]

\* Faulty variant: the columns walked from the right.
RECURSIVE FillRowBackwards(_, _, _)
FillRowBackwards(r, py, px) ==
    IF px < r.width
    THEN FillRowBackwards(
             [r EXCEPT
                !.data = WritePixel(@, PixelIndex(r.width - 1 - px, py, r.width),
                                    ComputePixel(r)),
                !.writes = Append(@, <<r.width - 1 - px, py>>)],
             py, px + 1)
    ELSE r

\* for (let px = 0; px < width; px++) { ... }
RECURSIVE FillRow(_, _, _)
FillRow(r, py, px) ==
    IF px < r.width
    THEN FillRow([r EXCEPT
                    !.data = WritePixel(@, PixelIndex(px, py, r.width), ComputePixel(r)),
                    !.writes = Append(@, <<px, py>>)],
                 py, px + 1)
    ELSE r

\* for (let py = ...; py < height; py++) { row; if (py % chunkSize === 0) {
\* updateProgress(progress); await ... } }  updateProgress(100); putImageData.
\* Runs from row py to the next suspension (pc "fill", py = rows completed)
\* or to the end of fractal.render (pc "wait": the caller's continuation has
\* then armed the 200 ms timer).
RECURSIVE PixelLoop(_, _)
PixelLoop(r, py) ==
    IF py < r.height
    THEN CHOOSE next \in
             {IF ShouldYield(py)
              THEN [filled EXCEPT
                      !.reported = Append(@, Progress(py, r.height)),
                      !.py = py + 1,
                      !.pc = "fill"]
              ELSE PixelLoop(filled, py + 1) :
                  filled \in {FillRow(r, py, 0)}} : TRUE
    ELSE LET reported == Append(r.reported, Rat(100, 1))
         IN [r EXCEPT !.reported = reported,
                      !.committed = Append(@, [data |-> r.data,
                                               reported |-> reported]),
                      !.py = py,
                      !.pc = "wait"]

\* ------------------------------------------------------------ GPU path
NoDraw == [family |-> "none", maxIterations |-> 0, steps |-> 0,
           zoom |-> Rat(0, 1), colorScheme |-> "none", u_colorScheme |-> 0]

\* let colorScheme = 0; if (... === 'cosine') 1; else if (... === 'continuous') 2
ShaderColorScheme(scheme) ==
    IF scheme = "cosine" THEN 1 ELSE IF scheme = "continuous" THEN 2 ELSE 0

\* for (int i = 0; i < 1000; i++) { if (i >= u_maxIterations) break; ... }
ShaderSteps(iterations) ==
    IF iterations < ShaderLoopCap THEN iterations ELSE ShaderLoopCap

\* new WebGLRenderer(canvas). Programs and buffers are numbered in the order
\* the context creates them (0 is null); live and liveBuffers are the ones
\* created and not yet deleted; destroyed says that destroy() was the last
\* call to change the renderer.
NewRenderer ==
    [initialized |-> FALSE, context |-> FALSE,
     program |-> 0, created |-> 0, live |-> {},
     vertexBuffer |-> 0, buffers |-> 0, liveBuffers |-> {},
     destroyed |-> FALSE]

\* WebGLRenderer.init(); context says whether getContext returned a context.
WebGLInit(gl, context) ==
    IF ~context
    THEN [gl EXCEPT !.context = FALSE]
    ELSE [gl EXCEPT !.context = TRUE,
                    !.vertexBuffer = gl.buffers + 1,
                    !.buffers = gl.buffers + 1,
                    !.liveBuffers = @ \cup {gl.buffers + 1},
                    !.initialized = TRUE,
                    !.destroyed = FALSE]

\* Faulty variant: the null program is not checked and the draw is issued.
WebGLRenderUnchecked(gl, type, params, compiled) ==
    IF ~gl.initialized
    THEN [ok |-> FALSE, gl |-> gl, draw |-> NoDraw]
    ELSE [ok |-> TRUE,
          gl |-> [gl EXCEPT !.program = gl.created + 1,
                            !.created = gl.created + 1,
                            !.live = @ \cup {gl.created + 1}],
          draw |-> [family |-> type,
                    maxIterations |-> params.maxIterations,
                    steps |-> ShaderSteps(params.maxIterations),
                    zoom |-> params.zoom,
                    colorScheme |-> params.colorScheme,
                    u_colorScheme |-> ShaderColorScheme(params.colorScheme)]]

\* WebGLRenderer.render(fractalType, params); compiled says whether
\* createProgram returned a program (a program that fails to link is deleted
\* inside createProgram). this.program is overwritten: the program it held
\* is not deleted. The result is the return value, the renderer afterwards
\* and the draw call issued (NoDraw when none).
WebGLRender(gl, type, params, compiled) ==
    IF ~gl.initialized
    THEN [ok |-> FALSE, gl |-> gl, draw |-> NoDraw]
    ELSE IF type \notin {"mandelbrot", "julia", "burning_ship"}
    THEN [ok |-> FALSE, gl |-> gl, draw |-> NoDraw]
    ELSE IF ~compiled
    THEN [ok |-> FALSE, gl |-> [gl EXCEPT !.program = 0], draw |-> NoDraw]
    ELSE [ok |-> TRUE,
          gl |-> [gl EXCEPT !.program = gl.created + 1,
                            !.created = gl.created + 1,
                            !.live = @ \cup {gl.created + 1}],
          draw |-> [family |-> type,
                    maxIterations |-> params.maxIterations,
                    steps |-> ShaderSteps(params.maxIterations),
                    zoom |-> params.zoom,
                    colorScheme |-> params.colorScheme,
                    u_colorScheme |-> ShaderColorScheme(params.colorScheme)]]

\* WebGLRenderer.destroy(): deletes the program this.program holds and the
\* vertex buffer, when there is a context.
WebGLDestroy(gl) ==
    IF gl.context
    THEN [gl EXCEPT !.live = @ \ {gl.program},
                    !.liveBuffers = @ \ {gl.vertexBuffer},
                    !.initialized = FALSE,
                    !.destroyed = TRUE]
    ELSE [gl EXCEPT !.initialized = FALSE, !.destroyed = TRUE]

\* MandelbrotFractal.render and JuliaFractal.render try the GPU first;
\* BurningShipFractal.render has no such branch.
TriesWebGL(type) == type \in {"mandelbrot", "julia"}

\* The record of a render() call that has run up to its first await.
\*   pc         "delay" (50 ms timer armed), "fill" (pixel loop suspended),
\*              "wait" (200 ms timer armed), "done"
\*   py         rows completed by the pixel loop
\*   writes     the pixels written so far, in the order written
\*   reported   the percentages fractal.render has passed to updateProgress
\*   committed  one entry per putImageData call: the buffer handed over and
\*              the percentages reported before it
\*   draw       the draw call the GPU path issued
\*   attempt    what became of the GPU attempt (see GpuAttempt)
\*   error      the error the call reported or threw
\*   shape      what a geometric fractal generated: its depth, or the number
\*              of points of the Barnsley fern
\*   drawn      the points of the fern drawn so far
NewRender ==
    [pc |-> "delay", path |-> "none", attempt |-> "none", error |-> "none",
     fractalType |-> "none",
     width |-> 0, height |-> 0, zoom |-> Rat(0, 1),
     useArbitraryPrecision |-> FALSE,
     py |-> 0, data |-> <<>>, writes |-> <<>>, reported |-> <<>>,
     committed |-> <<>>, draw |-> NoDraw, shape |-> 0, drawn |-> 0]

\* -------------------------------------------------- geometric fractals
Min(a, b) == IF a < b THEN a ELSE b
Last(seq) == seq[Len(seq)]

\* The cap in Math.min(Math.floor(maxIterations / 10), cap)
DepthCap(type) ==
    IF type = "koch" THEN 9
    ELSE IF type = "sierpinski" THEN 10
    ELSE IF type = "dragon" THEN 16
    ELSE 7

\* Faulty variant: a divisor of 5.
GeometricDepthByFive(type, iterations) ==
    Min(iterations \div 5, DepthCap(type))

\* const depth = Math.min(Math.floor(this.viewer.maxIterations / 10), cap)
\* in the render of Koch, Sierpinski, Dragon and Menger
GeometricDepth(type, iterations) ==
    Min(iterations \div 10, DepthCap(type))

\* BarnsleyFractal.render: Math.min(maxIterations * 1000, 100000) iterations,
\* of which generate keeps those with i > 20.
BarnsleyIterations(iterations) == Min(iterations * 1000, 100000)
BarnsleyPoints(iterations) ==
    IF BarnsleyIterations(iterations) > 21
    THEN BarnsleyIterations(iterations) - 21 ELSE 0

\* What a geometric fractal generates for a value of maxIterations.
GeometricShape(type, iterations) ==
    IF type = "barnsley" THEN BarnsleyPoints(iterations)
    ELSE GeometricDepth(type, iterations)

\* The point loop of BarnsleyFractal.render from point i on: it draws up to
\* and including the next point whose index is a multiple of 5000, reports
\* 50 + (i / points.length) * 50 and suspends; past the last point it
\* reports 100 and returns.
BarnsleyLoop(r, i) ==
    LET stop == ((i + 4999) \div 5000) * 5000
    IN IF stop < r.shape
       THEN [r EXCEPT !.drawn = stop + 1,
                      !.reported = Append(@, Rat(50 * r.shape + 50 * stop, r.shape)),
                      !.pc = "plot"]
       ELSE [r EXCEPT !.drawn = r.shape,
                      !.reported = Append(@, Rat(100, 1)),
                      !.pc = "wait"]

\* ------------------------------------------------------------- actions
\* FractalViewer.render up to its first await: show the loading indicator,
\* updateProgress(0), arm the 50 ms timer.
StartRender ==
    /\ Len(renders) < MaxRenders
    /\ loading' = TRUE
    /\ progress' = Rat(0, 1)
    /\ renders' = Append(renders, NewRender)

\* The state after a task has run render i's fill loop: the viewer shows the
\* last percentage; a finished loop has put its image on the canvas and the
\* caller has reported 100.
AfterFill(i, r) ==
    /\ renders' = [renders EXCEPT ![i] = r]
    /\ progress' = IF r.pc = "wait" THEN Rat(100, 1) ELSE r.reported[Len(r.reported)]
    /\ canvasImage' = IF r.pc = "wait" THEN [source |-> "cpu", render |-> i]
                      ELSE canvasImage

\* const fractal = this.fractals[this.fractalType]: this.fractals is an object
\* literal with eight own keys; any other name is looked up on
\* Object.prototype, which answers for its own members.
FractalsLookup(type) ==
    IF type \in EscapeTimeFractals \cup GeometricFractals THEN "fractal"
    ELSE IF type \in ObjectPrototypeKeys THEN "inherited"
    ELSE "undefined"

\* What fractal.render does about the GPU: "skipped" (its render has no GPU
\* branch), "unavailable" (the renderer is not initialized, render is not
\* called), "failed" (createProgram returned null or render returned false),
\* "drawn" (render returned true).
GpuAttempt(type, gl, compiled, ok) ==
    IF ~TriesWebGL(type) THEN "skipped"
    ELSE IF ~gl.initialized THEN "unavailable"
    ELSE IF compiled /\ ok THEN "drawn" ELSE "failed"

\* The 50 ms timer of render i fires: look the fractal up, try the GPU,
\* otherwise start the CPU pixel loop and run it to its first suspension.
\* Timers of one delay fire in the order they were set: the 50 ms timers of
\* the renders started earlier have fired.
Dispatch(i, compiled) ==
    LET r == renders[i]
        params == [maxIterations |-> maxIterations, zoom |-> zoom,
                   colorScheme |-> colorScheme]
        gpu == IF TriesWebGL(fractalType)
               THEN WebGLRender(webgl, fractalType, params, compiled)
               ELSE [ok |-> FALSE, gl |-> webgl, draw |-> NoDraw]
        attempt == GpuAttempt(fractalType, webgl, compiled, gpu.ok)
    IN /\ r.pc = "delay"
       /\ \A j \in 1..(i - 1) : renders[j].pc # "delay"
       /\ IF FractalsLookup(fractalType) = "undefined"
          THEN \* console.error, loading.classList.remove('active'), return
               /\ renders' = [renders EXCEPT ![i] =
                                [r EXCEPT !.pc = "done", !.path = "rejected",
                                          !.error = "Unknown fractal type"]]
               /\ loading' = FALSE
               /\ UNCHANGED <<webgl, progress, canvasImage>>
          ELSE IF FractalsLookup(fractalType) = "inherited"
          THEN \* fractal.render is undefined: the call throws and the
               \* promise of render() is rejected
               /\ renders' = [renders EXCEPT ![i] =
                                [r EXCEPT !.pc = "done", !.path = "threw",
                                          !.error = "TypeError"]]
               /\ UNCHANGED <<webgl, loading, progress, canvasImage>>
          ELSE IF fractalType \in GeometricFractals
          THEN \* fillRect black, then the fractal draws its shape; the
               \* Barnsley fern first awaits a 0 ms timer
               /\ renders' = [renders EXCEPT ![i] =
                                IF fractalType = "barnsley"
                                THEN [r EXCEPT !.pc = "generate",
                                               !.path = "geometric",
                                               !.attempt = "skipped",
                                               !.fractalType = fractalType]
                                ELSE [r EXCEPT !.pc = "wait",
                                               !.path = "geometric",
                                               !.attempt = "skipped",
                                               !.fractalType = fractalType,
                                               !.shape = GeometricDepth(
                                                   fractalType, maxIterations)]]
               /\ progress' = IF fractalType = "barnsley" THEN progress
                              ELSE Rat(100, 1)
               /\ canvasImage' = [source |-> "geometric", render |-> i]
               /\ UNCHANGED <<webgl, loading>>
          ELSE IF gpu.ok
          THEN /\ renders' = [renders EXCEPT ![i] =
                                [r EXCEPT !.pc = "wait", !.path = "gpu",
                                          !.attempt = attempt,
                                          !.fractalType = fractalType,
                                          !.reported = <<Rat(100, 1)>>,
                                          !.draw = gpu.draw]]
               /\ webgl' = gpu.gl
               /\ progress' = Rat(100, 1)
               /\ canvasImage' = [source |-> "gpu", render |-> i]
               /\ UNCHANGED loading
          ELSE IF canvas.width = 0 \/ canvas.height = 0
          THEN \* ctx.createImageData(width, height) throws on a zero size:
               \* the promise of render() is rejected
               /\ renders' = [renders EXCEPT ![i] =
                                [r EXCEPT !.pc = "done", !.path = "threw",
                                          !.attempt = attempt,
                                          !.fractalType = fractalType,
                                          !.error = "IndexSizeError"]]
               /\ webgl' = gpu.gl
               /\ UNCHANGED <<loading, progress, canvasImage>>
          ELSE /\ AfterFill(i, PixelLoop(
                    [r EXCEPT !.path = "cpu",
                              !.attempt = attempt,
                              !.fractalType = fractalType,
                              !.width = canvas.width,
                              !.height = canvas.height,
                              !.zoom = zoom,
                              !.useArbitraryPrecision =
                                  fractalType = "julia" /\ NeedsHighPrecision(zoom),
                              !.data = CreateImageData(canvas.width, canvas.height)],
                    0))
               /\ webgl' = gpu.gl
               /\ UNCHANGED loading
       /\ UNCHANGED <<fractalType, zoom, maxIterations, colorScheme, canvas,
                      decimalLoaded, tiers, shader, debounce, kernel, share>>

\* The 0 ms timer of a suspended pixel loop fires: fill the next rows.
Resume(i) ==
    /\ renders[i].pc = "fill"
    /\ AfterFill(i, PixelLoop(renders[i], renders[i].py))
    /\ UNCHANGED <<fractalType, zoom, maxIterations, colorScheme, canvas,
                   decimalLoaded, tiers, shader, debounce, kernel, share, webgl, loading>>

\* A 0 ms timer of BarnsleyFractal.render fires: generate the points and
\* report 50 (the first time), then draw the next points.
BarnsleyResume(i) ==
    LET r == renders[i]
        next == IF r.pc = "generate"
                THEN BarnsleyLoop(
                         [r EXCEPT !.shape = BarnsleyPoints(maxIterations),
                                   !.reported = Append(@, Rat(50, 1))],
                         0)
                ELSE BarnsleyLoop(r, r.drawn)
    IN /\ r.pc \in {"generate", "plot"}
       /\ renders' = [renders EXCEPT ![i] = next]
       /\ progress' = IF next.pc = "wait" THEN Rat(100, 1)
                      ELSE Last(next.reported)
       /\ canvasImage' = [source |-> "geometric", render |-> i]
       /\ UNCHANGED <<fractalType, zoom, maxIterations, colorScheme, canvas,
                      decimalLoaded, tiers, shader, debounce, kernel, share, webgl, loading>>

\* The 200 ms timer fires: loading.classList.remove('active').
Hide(i) ==
    /\ renders[i].pc = "wait"
    /\ renders' = [renders EXCEPT ![i].pc = "done"]
    /\ loading' = FALSE
    /\ UNCHANGED <<fractalType, zoom, maxIterations, colorScheme, canvas,
                   decimalLoaded, tiers, shader, debounce, kernel, share, webgl, progress, canvasImage>>

\* renderBtn click.
RenderButton ==
    /\ StartRender
    /\ UNCHANGED <<fractalType, zoom, maxIterations, colorScheme, canvas,
                   decimalLoaded, tiers, shader, debounce, kernel, share, webgl, canvasImage>>

\* window resize: setupCanvas(), render(). Setting a canvas's size clears it.
Resize(w, h) ==
    /\ canvas' = [width |-> w, height |-> h]
    /\ canvasImage' = [source |-> "blank", render |-> 0]
    /\ StartRender
    /\ UNCHANGED <<fractalType, zoom, maxIterations, colorScheme,
                   decimalLoaded, tiers, shader, debounce, kernel, share, webgl>>

\* dblclick: this.zoom *= 2 (and recentre), render().
DblClick ==
    /\ zoom' = RatMul(zoom, Rat(2, 1))
    /\ StartRender
    /\ UNCHANGED <<fractalType, maxIterations, colorScheme, canvas,
                   decimalLoaded, tiers, shader, debounce, kernel, share, webgl, canvasImage>>

\* maxIterations change.
MaxIterationsChange(v) ==
    /\ maxIterations' = v
    /\ StartRender
    /\ UNCHANGED <<fractalType, zoom, colorScheme, canvas,
                   decimalLoaded, tiers, shader, debounce, kernel, share, webgl, canvasImage>>

\* colorScheme change.
ColorSchemeChange(scheme) ==
    /\ colorScheme' = scheme
    /\ StartRender
    /\ UNCHANGED <<fractalType, zoom, maxIterations, canvas,
                   decimalLoaded, tiers, shader, debounce, kernel, share, webgl, canvasImage>>

\* resetView(): the zoom each fractal type is reset to.
ResetZoom(type) ==
    IF type = "mandelbrot" THEN Rat(1, 1)
    ELSE IF type = "burning_ship" THEN Rat(12, 10)
    ELSE IF type = "julia" THEN Rat(15, 10)
    ELSE zoom

\* fractalType change: resetView(), render().
FractalTypeChange(type) ==
    /\ fractalType' = type
    /\ zoom' = ResetZoom(type)
    /\ StartRender
    /\ UNCHANGED <<maxIterations, colorScheme, canvas,
                   decimalLoaded, tiers, shader, debounce, kernel, share, webgl, canvasImage>>

\* The constructor: WebGLRenderer.init(), setupCanvas(), decodeStateFromURL()
\* (each parameter of the query string is optional) and the first render().
Constructed(types, zooms, iterations, schemes, sizes) ==
    /\ fractalType \in types
    /\ zoom \in zooms
    /\ maxIterations \in iterations
    /\ colorScheme \in schemes
    /\ \E size \in sizes : canvas = [width |-> size[1], height |-> size[2]]
    /\ decimalLoaded \in BOOLEAN
    /\ \E context \in BOOLEAN : webgl = WebGLInit(NewRenderer, context)
    /\ loading = TRUE
    /\ progress = Rat(0, 1)
    /\ renders = <<NewRender>>
    /\ canvasImage = [source |-> "blank", render |-> 0]
    /\ kernel = NoKernelCall
    /\ share = NoShare
    /\ tiers = NoTiers
    /\ shader = NoShader
    /\ debounce = NoDebounce

\* The page opened without a query string: the constructor's defaults.
Init ==
    Constructed({"mandelbrot"}, {Rat(1, 1)}, {100}, {"default"}, WindowSizes)

\* The page opened with a query string.
FrameInit ==
    Constructed(FractalTypes, ZoomChoices, IterationChoices, ColorSchemes,
                (1..MaxWidth) \X (1..MaxHeight))

\* The page opened with a hand-written query string, in a small window.
LoadInit ==
    Constructed(UrlTypes, UrlZooms, {100}, UrlSchemes, WindowSizes)

Next ==
    \/ \E i \in 1..Len(renders), compiled \in BOOLEAN : Dispatch(i, compiled)
    \/ \E i \in 1..Len(renders) : Resume(i)
    \/ \E i \in 1..Len(renders) : Hide(i)
    \/ RenderButton
    \/ \E size \in WindowSizes : Resize(size[1], size[2])
    \/ DblClick
    \/ \E v \in MenuIterations : MaxIterationsChange(v)
    \/ \E scheme \in MenuSchemes : ColorSchemeChange(scheme)
    \/ \E type \in FractalTypes : FractalTypeChange(type)

Spec == Init /\ [][Next]_vars

\* One page load with no further user input: only the timers of the first
\* render() run.
FrameNext ==
    \/ \E compiled \in BOOLEAN : Dispatch(1, compiled)
    \/ Resume(1)
    \/ Hide(1)

FrameSpec == FrameInit /\ [][FrameNext]_vars

\* The page opened with a geometric fractal in the query string.
GeometryInit ==
    Constructed(GeometricFractals, {Rat(1, 1)}, 1..MaxGeometricIterations,
                {"default"}, {<<1, 1>>})

GeometryNext ==
    \/ \E compiled \in BOOLEAN : Dispatch(1, compiled)
    \/ BarnsleyResume(1)
    \/ Hide(1)

GeometrySpec == GeometryInit /\ [][GeometryNext]_vars

LoadSpec == LoadInit /\ [][FrameNext]_vars

\* One page load with any of the eight fractals, in a window that may have
\* no height, and no further user input. A timer that has been set fires:
\* each timer callback is weakly fair.
LiveInit ==
    Constructed(EscapeTimeFractals \cup GeometricFractals, {Rat(1, 1)},
                {1, 100}, {"default"},
                {1} \X {0, 1, chunkSize + 1, MaxHeight})

LiveNext ==
    \/ \E compiled \in BOOLEAN : Dispatch(1, compiled)
    \/ Resume(1)
    \/ BarnsleyResume(1)
    \/ Hide(1)

LiveSpec ==
    /\ LiveInit
    /\ [][LiveNext]_vars
    /\ WF_vars(\E compiled \in BOOLEAN : Dispatch(1, compiled))
    /\ WF_vars(Resume(1))
    /\ WF_vars(BarnsleyResume(1))
    /\ WF_vars(Hide(1))

\* ------------------------------------------------ the renderer on its own
\* The viewer's variables while a component is exercised without a viewer.
ViewerIdle ==
    /\ fractalType = "mandelbrot"
    /\ zoom = Rat(1, 1)
    /\ maxIterations = 100
    /\ colorScheme = "default"
    /\ canvas = [width |-> 1, height |-> 1]
    /\ decimalLoaded = FALSE
    /\ loading = FALSE
    /\ progress = Rat(0, 1)
    /\ renders = <<>>
    /\ canvasImage = [source |-> "blank", render |-> 0]

\* A WebGLRenderer driven by any sequence of init, render and destroy calls
\* (the viewer itself calls init once and never calls destroy).
RendererInit(context) ==
    /\ webgl.buffers < MaxBuffers
    /\ webgl' = WebGLInit(webgl, context)
    /\ UNCHANGED <<fractalType, zoom, maxIterations, colorScheme, canvas,
                   decimalLoaded, tiers, shader, debounce, kernel, share, loading, progress, renders,
                   canvasImage>>

RendererRender(type, compiled) ==
    /\ webgl.created < MaxPrograms
    /\ webgl' = WebGLRender(webgl, type,
                            [maxIterations |-> maxIterations, zoom |-> zoom,
                             colorScheme |-> colorScheme],
                            compiled).gl
    /\ UNCHANGED <<fractalType, zoom, maxIterations, colorScheme, canvas,
                   decimalLoaded, tiers, shader, debounce, kernel, share, loading, progress, renders,
                   canvasImage>>

RendererDestroy ==
    /\ webgl' = WebGLDestroy(webgl)
    /\ UNCHANGED <<fractalType, zoom, maxIterations, colorScheme, canvas,
                   decimalLoaded, tiers, shader, debounce, kernel, share, loading, progress, renders,
                   canvasImage>>

RendererInitial ==
    /\ webgl = NewRenderer
    /\ ViewerIdle
    /\ kernel = NoKernelCall
    /\ share = NoShare
    /\ tiers = NoTiers
    /\ shader = NoShader
    /\ debounce = NoDebounce

RendererNext ==
    \/ \E context \in BOOLEAN : RendererInit(context)
    \/ \E type \in FractalTypes \cup {"koch"}, compiled \in BOOLEAN :
           RendererRender(type, compiled)
    \/ RendererDestroy

RendererSpec == RendererInitial /\ [][RendererNext]_vars

\* ------------------------------------------------- the kernels on their own
\* One iteration of the loop body.
KernelStep ==
    /\ kernel.pc = "loop"
    /\ Continues(kernel.family, kernel.x, kernel.y, kernel.iteration,
                 kernel.maxIterations)
    /\ LET next == Step(kernel.family, kernel.x, kernel.y, kernel.cx, kernel.cy)
       IN kernel' = [kernel EXCEPT
                       !.from = <<[x |-> kernel.x, y |-> kernel.y,
                                   iteration |-> kernel.iteration]>>,
                       !.x = next.x, !.y = next.y,
                       !.iteration = kernel.iteration + 1]
    /\ UNCHANGED <<fractalType, zoom, maxIterations, colorScheme, canvas,
                   decimalLoaded, tiers, shader, debounce, share, webgl, loading, progress, renders,
                   canvasImage>>

\* The loop test fails: the smooth component, return.
KernelReturn ==
    /\ kernel.pc = "loop"
    /\ ~Continues(kernel.family, kernel.x, kernel.y, kernel.iteration,
                  kernel.maxIterations)
    /\ kernel' = [kernel EXCEPT
                    !.pc = "returned",
                    !.value = <<ReturnValue(kernel.iteration, kernel.maxIterations,
                                            Magnitude(kernel.x, kernel.y))>>]
    /\ UNCHANGED <<fractalType, zoom, maxIterations, colorScheme, canvas,
                   decimalLoaded, tiers, shader, debounce, share, webgl, loading, progress, renders,
                   canvasImage>>

Coordinates == (-MaxCoordinate)..MaxCoordinate

KernelInit ==
    /\ ViewerIdle
    /\ webgl = NewRenderer
    /\ share = NoShare
    /\ tiers = NoTiers
    /\ shader = NoShader
    /\ debounce = NoDebounce
    /\ \E family \in KernelFamilies, zx, zy \in Coordinates,
          max \in 1..MaxKernelIterations :
          IF family \in {"julia", "julia_hp"}
          THEN \E juliaReal, juliaImag \in Coordinates :
                   kernel = KernelCall(family, zx, zy, juliaReal, juliaImag, max)
          ELSE kernel = KernelCall(family, zx, zy, 0, 0, max)

KernelNext == KernelStep \/ KernelReturn

KernelSpec == KernelInit /\ [][KernelNext]_vars

\* --------------------------------------------------- sharing on its own
\* The viewer states shared: each field at the constructor's value or at
\* one other value its control can give it.
ShareStates ==
    {[DefaultState EXCEPT
         !.fractalType = type, !.centerX = cx, !.zoom = z,
         !.maxIterations = iter, !.colorScheme = scheme,
         !.juliaReal = jr,
         !.cosineBaseColor = [r |-> c, g |-> 128, b |-> 255],
         !.hslStartHue = h, !.complementaryHue = h - 20,
         !.triadicHue = 240 - h,
         !.bezierColors[1] = [r |-> 10, g |-> 20, b |-> b],
         !.cubehelixRotations = chr] :
        type \in {"mandelbrot", "julia"}, cx \in {-5, 12}, z \in {10, 2500},
        iter \in {100, 1001},
        scheme \in {"default", "cosine", "hsl", "bezier", "complementary",
                    "triadic", "cubehelix"},
        jr \in {-4, 3}, c \in {128, 7}, h \in {240, 30}, b \in {100, 0},
        chr \in {-15, 20}}

Encode ==
    /\ share.pc = "state"
    /\ share' = [share EXCEPT !.pc = "encoded",
                              !.params = EncodeState(share.state[1])]
    /\ UNCHANGED <<fractalType, zoom, maxIterations, colorScheme, canvas,
                   decimalLoaded, tiers, shader, debounce, kernel, webgl, loading, progress, renders,
                   canvasImage>>

Decode ==
    /\ share.pc = "encoded"
    /\ share' = [share EXCEPT !.pc = "decoded",
                              !.fresh = <<DecodeState(DefaultState, share.params)>>]
    /\ UNCHANGED <<fractalType, zoom, maxIterations, colorScheme, canvas,
                   decimalLoaded, tiers, shader, debounce, kernel, webgl, loading, progress, renders,
                   canvasImage>>

ShareInit ==
    /\ ViewerIdle
    /\ webgl = NewRenderer
    /\ kernel = NoKernelCall
    /\ tiers = NoTiers
    /\ shader = NoShader
    /\ debounce = NoDebounce
    /\ \E v \in ShareStates : share = [NoShare EXCEPT !.pc = "state", !.state = <<v>>]

ShareNext == Encode \/ Decode

ShareSpec == ShareInit /\ [][ShareNext]_vars

\* ----------------------------------------------- the tiers side by side
\* calculate(zx, zy) and calculateHighPrecision(zx, zy) on the same inputs.
CalculateBoth ==
    /\ tiers.pc = "inputs"
    /\ tiers' = [tiers EXCEPT
                   !.pc = "returned",
                   !.native = <<NativeCount(
                       Quarters(NativeTier, tiers.zx),
                       Quarters(NativeTier, tiers.zy),
                       Quarters(NativeTier, tiers.juliaReal),
                       Quarters(NativeTier, tiers.juliaImag),
                       0, tiers.maxIterations, TRUE)>>,
                   !.decimal = <<HighPrecisionCount(
                       Quarters(DecimalTier, tiers.zx),
                       Quarters(DecimalTier, tiers.zy),
                       Quarters(DecimalTier, tiers.juliaReal),
                       Quarters(DecimalTier, tiers.juliaImag),
                       0, tiers.maxIterations, TRUE)>>]
    /\ UNCHANGED <<fractalType, zoom, maxIterations, colorScheme, canvas,
                   decimalLoaded, kernel, share, shader, debounce, webgl,
                   loading, progress, renders, canvasImage>>

TiersInit ==
    /\ ViewerIdle
    /\ webgl = NewRenderer
    /\ kernel = NoKernelCall
    /\ share = NoShare
    /\ shader = NoShader
    /\ debounce = NoDebounce
    /\ \E zx, zy, juliaReal, juliaImag \in (-MaxQuarters)..MaxQuarters,
          max \in {MaxTierIterations} :
          tiers = [NoTiers EXCEPT !.pc = "inputs", !.zx = zx, !.zy = zy,
                                  !.juliaReal = juliaReal,
                                  !.juliaImag = juliaImag,
                                  !.maxIterations = max]

TiersNext == CalculateBoth

TiersSpec == TiersInit /\ [][TiersNext]_vars

\* ------------------------------------------ the shaders beside the kernels
\* main() and render()'s pixel loop map one screen pixel to the plane.
MapFragment ==
    /\ shader.pc = "fragment"
    /\ shader' = [shader EXCEPT
                    !.pc = "mapped",
                    !.gpuPoint = <<ShaderPoint(
                        FragCoord(shader.px, shader.py, shader.height),
                        shader.width, shader.height,
                        shader.centerX, shader.centerY, shader.zoom)>>,
                    !.cpuPoint = <<CpuPoint(
                        shader.px, shader.py, shader.width, shader.height,
                        shader.centerX, shader.centerY, shader.zoom)>>]
    /\ UNCHANGED <<fractalType, zoom, maxIterations, colorScheme, canvas,
                   decimalLoaded, kernel, share, tiers, debounce, webgl,
                   loading, progress, renders, canvasImage>>

\* One pass of each loop that has not stopped.
ShaderIterate ==
    /\ shader.pc = "loop"
    /\ LET g == shader.gpu
           c == shader.cpu
           gpuOn == ShaderContinues(shader.i, g.x, g.y, shader.maxIterations)
           cpuOn == Continues(shader.family, c.x, c.y, c.iteration,
                              shader.maxIterations)
           gnext == ShaderStep(shader.family, g.x, g.y, shader.cx, shader.cy)
           cnext == Step(shader.family, c.x, c.y, shader.cx, shader.cy)
       IN /\ gpuOn \/ cpuOn
          /\ shader' = [shader EXCEPT
                          !.i = IF gpuOn THEN @ + 1 ELSE @,
                          !.gpu = IF gpuOn
                                  THEN [x |-> gnext.x, y |-> gnext.y,
                                        iteration |-> g.iteration + 1]
                                  ELSE @,
                          !.cpu = IF cpuOn
                                  THEN [x |-> cnext.x, y |-> cnext.y,
                                        iteration |-> c.iteration + 1]
                                  ELSE @]
    /\ UNCHANGED <<fractalType, zoom, maxIterations, colorScheme, canvas,
                   decimalLoaded, kernel, share, tiers, debounce, webgl,
                   loading, progress, renders, canvasImage>>

\* Both loops have stopped: the smooth components.
ShaderFinish ==
    /\ shader.pc = "loop"
    /\ LET g == shader.gpu
           c == shader.cpu
       IN /\ ~ShaderContinues(shader.i, g.x, g.y, shader.maxIterations)
          /\ ~Continues(shader.family, c.x, c.y, c.iteration,
                        shader.maxIterations)
          /\ shader' = [shader EXCEPT
                          !.pc = "done",
                          !.result = <<[gpu |-> ShaderValue(
                                            g.iteration, shader.maxIterations,
                                            Magnitude(g.x, g.y)),
                                        cpu |-> ReturnValue(
                                            c.iteration, shader.maxIterations,
                                            Magnitude(c.x, c.y))]>>]
    /\ UNCHANGED <<fractalType, zoom, maxIterations, colorScheme, canvas,
                   decimalLoaded, kernel, share, tiers, debounce, webgl,
                   loading, progress, renders, canvasImage>>

\* The Julia constants uploaded as they are: render() replaces a zero
\* component by -0.4 or 0.6 (params.juliaReal || -0.4).
JuliaUniforms == Coordinates \ {0}

ShaderInit ==
    /\ ViewerIdle
    /\ webgl = NewRenderer
    /\ kernel = NoKernelCall
    /\ share = NoShare
    /\ tiers = NoTiers
    /\ debounce = NoDebounce
    /\ \/ \E width \in 1..MaxWidth, height \in {1, 2, chunkSize + 1},
             centerX, centerY \in {-1, 0}, z \in {Rat(1, 1), Rat(2, 1)} :
             \E px \in 0..(width - 1), py \in 0..(height - 1) :
                shader = [NoShader EXCEPT
                            !.pc = "fragment", !.width = width,
                            !.height = height, !.centerX = centerX,
                            !.centerY = centerY, !.zoom = z,
                            !.px = px, !.py = py]
       \/ \E family \in EscapeTimeFractals, zx, zy \in Coordinates,
             max \in {MaxKernelIterations, ShaderLoopCap, ShaderLoopCap + 1} :
             IF family = "julia"
             THEN \E juliaReal, juliaImag \in JuliaUniforms :
                      shader = ShaderLoops(family, zx, zy, juliaReal,
                                           juliaImag, max)
             ELSE shader = ShaderLoops(family, zx, zy, 0, 0, max)

ShaderNext == MapFragment \/ ShaderIterate \/ ShaderFinish

ShaderSpec == ShaderInit /\ [][ShaderNext]_vars

\* --------------------------------------------------- the colour controls
\* An input event of cosineBaseColor, cosineAccentColor or bezierColor: the
\* colour is stored and debouncedRender() is called with the default delay.
ColorInput ==
    /\ debounce.inputs < MaxInputs
    /\ Len(renders) < MaxRenders
    /\ LET d == debounce
           newBurst == d.lastInput >= 0 /\ d.now - d.lastInput >= DebounceDelay
           cleared == IF d.colorDebounceTimer # 0
                      THEN ClearTimeout(d.timers, d.colorDebounceTimer)
                      ELSE d.timers
       IN debounce' = [d EXCEPT
                         !.timers = SetTimeout(cleared, d.nextTimer, d.now,
                                               DebounceDelay),
                         !.colorDebounceTimer = d.nextTimer,
                         !.nextTimer = d.nextTimer + 1,
                         !.lastInput = d.now,
                         !.inputs = d.inputs + 1,
                         !.burstInputs = IF newBurst THEN 1 ELSE d.burstInputs + 1,
                         !.burstRenders = IF newBurst THEN 0 ELSE d.burstRenders,
                         !.closed = IF newBurst
                                    THEN d.closed \cup {d.burstRenders}
                                    ELSE d.closed]
    /\ UNCHANGED <<fractalType, zoom, maxIterations, colorScheme, canvas,
                   decimalLoaded, kernel, share, tiers, shader, webgl,
                   loading, progress, renders, canvasImage>>

\* Time passes while no task runs or while a task keeps the thread; a timer
\* that is due fires some time later.
Elapse(ms) ==
    /\ debounce.now + ms <= MaxClock
    /\ debounce' = [debounce EXCEPT !.now = debounce.now + ms]
    /\ UNCHANGED <<fractalType, zoom, maxIterations, colorScheme, canvas,
                   decimalLoaded, kernel, share, tiers, shader, webgl,
                   loading, progress, renders, canvasImage>>

\* A timer set by debouncedRender fires, not before it is due:
\* () => { this.render(); }
DebounceFires ==
    /\ \E t \in debounce.timers :
          /\ t.due <= debounce.now
          /\ debounce' = [debounce EXCEPT
                            !.timers = debounce.timers \ {t},
                            !.burstRenders = debounce.burstRenders + 1,
                            !.after = debounce.after
                                      \cup {debounce.now - debounce.lastInput}]
    /\ StartRender
    /\ UNCHANGED <<fractalType, zoom, maxIterations, colorScheme, canvas,
                   decimalLoaded, kernel, share, tiers, shader, webgl,
                   canvasImage>>

DebounceInit ==
    Constructed({"mandelbrot"}, {Rat(1, 1)}, {100}, {"cosine"}, {<<1, 1>>})

DebounceNext ==
    \/ ColorInput
    \/ \E ms \in {DebounceDelay - 1, DebounceDelay} : Elapse(ms)
    \/ DebounceFires

DebounceSpec == DebounceInit /\ [][DebounceNext]_vars

\* ------------------------------------------------------------- properties
Renders == 1..Len(renders)
CpuRenders == {i \in Renders : renders[i].path = "cpu"}
GpuRenders == {i \in Renders : renders[i].path = "gpu"}
LoopFinished(r) == r.pc \in {"wait", "done"}
Pixels(r) == (0..(r.width - 1)) \X (0..(r.height - 1))
Written(r) == {r.data[i] : i \in {j \in DOMAIN r.data : r.data[j].a = 255}}
AboveThreshold(z) == z.n > TwoPow20 * z.d

\* C1: within one CPU pixel-fill render the percentages passed to
\* updateProgress never decrease, all lie in [0,100], and once the last row is
\* filled the last one is exactly 100.
C1_ProgressMonotone ==
    \A i \in CpuRenders :
        LET r == renders[i]
            rep == r.reported
        IN /\ \A k \in 1..Len(rep) :
                  /\ 0 <= rep[k].n
                  /\ rep[k].n <= 100 * rep[k].d
           /\ \A k \in 1..(Len(rep) - 1) :
                  rep[k].n * rep[k + 1].d <= rep[k + 1].n * rep[k].d
           /\ LoopFinished(r) =>
                  /\ r.py = r.height
                  /\ Len(rep) >= 1
                  /\ Last(rep).n = 100 * Last(rep).d

\* A finished CPU render of a canvas higher than two chunks: it has reported
\* after rows 0, 20 and 40, and then 100.
C1_Witness ==
    \E i \in CpuRenders :
        /\ LoopFinished(renders[i])
        /\ renders[i].height > 2 * chunkSize
        /\ Len(renders[i].reported) = 4

\* C2 as claimed: the loop suspends exactly when the number of completed rows
\* is 20, 40, 60, ...
C2_SuspendsAtTwentyForty ==
    \A i \in CpuRenders :
        renders[i].pc = "fill" =>
            /\ renders[i].py > 0
            /\ renders[i].py % chunkSize = 0

\* C2 as amended: the loop reports progress and suspends exactly after the
\* rows whose index is a multiple of 20 (when 1, 21, 41, ... rows are
\* complete), before any further row is filled; a finished loop has
\* suspended once for each such row of the canvas.
C2_SuspendsAfterRowMultiples ==
    \A i \in CpuRenders :
        LET r == renders[i]
        IN /\ r.pc = "fill" =>
                  /\ r.py >= 1
                  /\ (r.py - 1) % chunkSize = 0
                  /\ Len(r.writes) = r.py * r.width
                  /\ Len(r.reported) = ((r.py - 1) \div chunkSize) + 1
                  /\ Last(r.reported) = Rat((r.py - 1) * 100, r.height)
           /\ LoopFinished(r) =>
                  Len(r.reported) = ((r.height - 1) \div chunkSize) + 2

\* A loop suspended for the second time: 21 rows complete.
C2_Witness ==
    \E i \in CpuRenders :
        /\ renders[i].pc = "fill"
        /\ renders[i].py = chunkSize + 1
        /\ Len(renders[i].reported) = 2

\* C3: the pixels are written in strict row-major order, the k-th write being
\* column (k-1) mod width of row (k-1) div width, also across suspensions.
C3_RowMajorOrder ==
    \A i \in CpuRenders :
        LET r == renders[i]
        IN \A k \in 1..Len(r.writes) :
               r.writes[k] = <<(k - 1) % r.width, (k - 1) \div r.width>>

\* A loop with more than one column that has resumed after a suspension and
\* finished rows on both sides of it.
C3_Witness ==
    \E i \in CpuRenders :
        /\ renders[i].width >= 2
        /\ renders[i].py > chunkSize + 1
        /\ Len(renders[i].writes) = renders[i].width * renders[i].height

\* C4: a CPU render calls putImageData exactly once, not before its loop has
\* finished, after 100 has been reported, with a buffer in which every pixel
\* (px, py) holds alpha 255 at offset (py * width + px) * 4.
C4_CommitsWholeFrameOnce ==
    \A i \in CpuRenders :
        LET r == renders[i]
        IN /\ ~LoopFinished(r) => Len(r.committed) = 0
           /\ LoopFinished(r) =>
                  /\ Len(r.committed) = 1
                  /\ Last(r.committed[1].reported) = Rat(100, 1)
                  /\ \A p \in Pixels(r) :
                         LET offset == (p[2] * r.width + p[1]) * 4
                         IN /\ offset \in DOMAIN r.committed[1].data
                            /\ r.committed[1].data[offset].a = 255

\* The canvas shows the frame of a finished CPU render of several rows and
\* columns.
C4_Witness ==
    \E i \in CpuRenders :
        /\ LoopFinished(renders[i])
        /\ canvasImage = [source |-> "cpu", render |-> i]
        /\ renders[i].width >= 2
        /\ renders[i].height >= 3
        /\ Len(renders[i].committed) = 1

\* C5: at most one render is in flight: no two render() calls have their
\* pixel-fill loop still to complete at the same time.
C5_SingleFlight ==
    Cardinality({i \in Renders : renders[i].pc \in {"delay", "fill"}}) <= 1

\* C6: every pixel of a CPU render started at zoom > 2^20 has its coordinate
\* mapping and its kernel in arbitrary precision, whatever the family.
C6_HighPrecisionAboveThreshold ==
    \A i \in CpuRenders :
        AboveThreshold(renders[i].zoom) =>
            \A p \in Written(renders[i]) :
                p.mapping = "decimal" /\ p.kernel = "decimal"

\* C7: in a Julia CPU render all pixels use one tier, and it is the
\* high-precision tier iff zoom > 2^20.
C7_JuliaTierIffAboveThreshold ==
    \A i \in CpuRenders :
        renders[i].fractalType = "julia" =>
            \A p \in Written(renders[i]) :
                /\ p.kernel = "decimal" <=> AboveThreshold(renders[i].zoom)
                /\ p.mapping = p.kernel

\* C8: a Julia render that needs high precision while window.Decimal is
\* absent writes no pixel and commits no frame.
C8_NoSilentDowngrade ==
    \A i \in CpuRenders :
        (/\ renders[i].fractalType = "julia"
         /\ AboveThreshold(renders[i].zoom)
         /\ ~decimalLoaded) =>
            /\ Written(renders[i]) = {}
            /\ Len(renders[i].committed) = 0

\* C9: the GPU path draws no request whose maxIterations exceeds 1000 or whose
\* zoom needs high precision.
C9_GpuGate ==
    \A i \in GpuRenders :
        /\ renders[i].draw.maxIterations <= ShaderLoopCap
        /\ ~AboveThreshold(renders[i].draw.zoom)

\* C10: the GPU path draws no request whose color scheme is other than
\* default, cosine or continuous.
C10_GpuSchemeGate ==
    \A i \in GpuRenders :
        renders[i].draw.colorScheme \in {"default", "cosine", "continuous"}

\* C11: when WebGL initialization failed, or createProgram fails (a shader
\* does not compile or the program does not link), the GPU attempt ends
\* without an error and without a draw call, the renderer's initialized flag
\* is as init left it, and the same render() call fills the frame on the CPU
\* path: once its loop has finished, one whole frame has been committed.
C11_GpuFailureFallsBack ==
    \A i \in Renders :
        LET r == renders[i]
        IN r.attempt \in {"unavailable", "failed"} =>
               /\ r.error = "none"
               /\ r.draw = NoDraw
               /\ r.path = "cpu"
               /\ r.attempt = "unavailable" => ~webgl.initialized
               /\ r.attempt = "failed" => webgl.initialized /\ webgl.program = 0
               /\ LoopFinished(r) =>
                      /\ Len(r.committed) = 1
                      /\ \A k \in DOMAIN r.data : r.data[k].a = 255
                      /\ r.pc = "done" => canvasImage = [source |-> "cpu", render |-> i]

\* A render whose createProgram failed has finished on the CPU path.
C11_Witness ==
    \E i \in Renders :
        /\ renders[i].attempt = "failed"
        /\ renders[i].pc = "done"
        /\ renders[i].height > chunkSize
        /\ canvasImage = [source |-> "cpu", render |-> i]

\* C12: every render of an escape-time family first attempts the GPU path; a
\* render the GPU path served has reported 100 at once, has never suspended
\* and has run no CPU pixel loop; a render on the CPU pixel loop is one whose
\* GPU attempt was unavailable or failed, and it has issued no draw call.
C12_GpuFirstThenCpu ==
    \A i \in Renders :
        LET r == renders[i]
        IN r.path \in {"cpu", "gpu"} =>
               /\ r.attempt # "skipped"
               /\ r.path = "gpu" =>
                      /\ r.reported = <<Rat(100, 1)>>
                      /\ r.pc # "fill"
                      /\ r.writes = <<>>
                      /\ r.committed = <<>>
               /\ r.path = "cpu" =>
                      /\ r.attempt \in {"unavailable", "failed"}
                      /\ r.draw = NoDraw

\* C13: a render request whose fractal family is not one of the viewer's
\* eight is rejected: it evaluates no pixel, writes nothing to the canvas,
\* makes no GPU call, reports an error, and the loading indicator is removed.
C13_UnknownFamilyRejected ==
    fractalType \notin EscapeTimeFractals \cup GeometricFractals =>
        \A i \in Renders :
            LET r == renders[i]
            IN r.pc # "delay" =>
                   /\ r.path = "rejected"
                   /\ r.error # "none"
                   /\ r.writes = <<>>
                   /\ r.committed = <<>>
                   /\ r.draw = NoDraw
                   /\ webgl.created = 0
                   /\ canvasImage.source = "blank"
                   /\ ~loading

\* The color schemes getColor's switch lists.
KnownColorSchemes ==
    {"default", "cosine", "continuous", "hsl", "golden", "cubehelix",
     "grayscale", "bezier", "complementary", "triadic", "stripe"}

\* C14: a render request whose color scheme is not one of the known schemes
\* fails with an error before any pixel is computed, on the CPU path and on
\* the GPU path: no pixel is written and no draw call is issued.
C14_UnknownSchemeFailsFast ==
    colorScheme \notin KnownColorSchemes =>
        \A i \in Renders :
            LET r == renders[i]
            IN r.path \in {"cpu", "gpu"} =>
                   /\ r.error # "none"
                   /\ r.writes = <<>>
                   /\ r.draw = NoDraw

\* C20: the zoom factor is strictly positive in every reachable state.
C20_ZoomPositive ==
    zoom.n > 0 /\ zoom.d > 0

\* C19: once destroy has run, every shader program and every vertex buffer
\* that was created has been deleted; and at any time at most one program is
\* live, however many render calls were made.
C19_ResourcesReleased ==
    /\ webgl.destroyed => webgl.live = {} /\ webgl.liveBuffers = {}
    /\ Cardinality(webgl.live) <= 1

\* The raw count the loop of calculate reaches from an orbit position.
RECURSIVE RawCount(_, _, _, _, _, _, _)
RawCount(family, x, y, cx, cy, iteration, max) ==
    IF Continues(family, x, y, iteration, max)
    THEN LET next == Step(family, x, y, cx, cy)
         IN RawCount(family, next.x, next.y, cx, cy, iteration + 1, max)
    ELSE iteration

\* C15: in every family's kernel the raw count stays within
\* [0, maxIterations]; every step is taken from an orbit position with
\* x^2 + y^2 <= 4 and a count below maxIterations; and the loop has stopped
\* only with x^2 + y^2 > 4 or with the count equal to maxIterations.
C15_LoopStopsOnEscapeOrCap ==
    kernel.pc # "none" =>
        /\ 0 <= kernel.iteration
        /\ kernel.iteration <= kernel.maxIterations
        /\ kernel.from # <<>> =>
               /\ Magnitude(kernel.from[1].x, kernel.from[1].y) <= 4
               /\ kernel.from[1].iteration < kernel.maxIterations
               /\ kernel.iteration = kernel.from[1].iteration + 1
        /\ kernel.pc = "returned" =>
               /\ \/ Magnitude(kernel.x, kernel.y) > 4
                  \/ kernel.iteration = kernel.maxIterations
               /\ kernel.value[1].raw = kernel.iteration

\* A kernel call that escaped after at least two steps, below the cap.
C15_Witness ==
    /\ kernel.pc = "returned"
    /\ kernel.iteration >= 2
    /\ kernel.iteration < kernel.maxIterations
    /\ Magnitude(kernel.x, kernel.y) > 4

\* C16: when the raw count has reached maxIterations, calculate returns
\* exactly maxIterations, with no smooth component, and getColor maps that
\* value to [0, 0, 0] under every color scheme.
C16_CapReturnsMaxAndBlack ==
    (kernel.pc = "returned" /\ kernel.iteration = kernel.maxIterations) =>
        /\ kernel.value[1] = [raw |-> kernel.maxIterations, smoothed |-> FALSE,
                              magnitude |-> 0]
        /\ \A scheme \in KnownColorSchemes \cup {"nosuch"} :
               GetColor(kernel.value[1], kernel.maxIterations, scheme) = <<0, 0, 0>>

\* A call that returned at the cap: from a point that never escapes, and
\* from a point whose orbit left the circle with the last permitted step.
C16_Witness ==
    /\ kernel.pc = "returned"
    /\ kernel.iteration = kernel.maxIterations
    /\ kernel.maxIterations >= 3
    /\ Magnitude(kernel.x, kernel.y) > 4

\* C17: the Burning Ship step is the Mandelbrot step applied to (|x|, |y|),
\* and the two kernels' raw counts differ at c = (-1, -1) for the same
\* maxIterations: Mandelbrot escapes with count 3, Burning Ship reaches
\* maxIterations.
C17_BurningShipFoldsAndDiverges ==
    kernel.family \in {"mandelbrot", "burning_ship"} =>
        /\ BurningShipStep(kernel.x, kernel.y, kernel.cx, kernel.cy)
               = MandelbrotStep(Abs(kernel.x), Abs(kernel.y), kernel.cx, kernel.cy)
        /\ kernel.pc = "returned" =>
               kernel.iteration = RawCount(kernel.family, 0, 0, kernel.cx,
                                           kernel.cy, 0, kernel.maxIterations)
        /\ (kernel.cx = -1 /\ kernel.cy = -1 /\ kernel.maxIterations >= 4) =>
               /\ RawCount("mandelbrot", 0, 0, -1, -1, 0, kernel.maxIterations) = 3
               /\ RawCount("burning_ship", 0, 0, -1, -1, 0, kernel.maxIterations)
                      = kernel.maxIterations
               /\ kernel.pc = "returned" =>
                      (kernel.family = "mandelbrot" <=> kernel.iteration = 3)

\* The Burning Ship kernel has returned maxIterations at c = (-1, -1), a point
\* where the Mandelbrot kernel escapes.
C17_Witness ==
    /\ kernel.family = "burning_ship"
    /\ kernel.cx = -1
    /\ kernel.cy = -1
    /\ kernel.maxIterations >= 4
    /\ kernel.pc = "returned"
    /\ kernel.iteration = kernel.maxIterations
    /\ RawCount("mandelbrot", 0, 0, -1, -1, 0, kernel.maxIterations)
           < kernel.maxIterations

\* The tunables of a state's active color scheme.
ActiveTunables(v) ==
    IF v.colorScheme = "cosine" THEN <<v.cosineBaseColor, v.cosineAccentColor>>
    ELSE IF v.colorScheme = "hsl" THEN <<v.hslStartHue, v.hslEndHue>>
    ELSE IF v.colorScheme = "bezier" THEN v.bezierColors
    ELSE IF v.colorScheme = "complementary" THEN <<v.complementaryHue>>
    ELSE IF v.colorScheme = "triadic" THEN <<v.triadicHue>>
    ELSE IF v.colorScheme = "cubehelix" THEN <<v.cubehelixRotations>>
    ELSE <<>>

\* C18: a fresh viewer that decodes the query string encodeState produced has
\* the same family, center, zoom, maxIterations, color scheme and Julia
\* constant as the viewer that encoded it, and the same tunables of the
\* active color scheme.
C18_ShareRoundTrip ==
    share.pc = "decoded" =>
        LET v == share.state[1]
            f == share.fresh[1]
        IN /\ f.fractalType = v.fractalType
           /\ f.centerX = v.centerX
           /\ f.centerY = v.centerY
           /\ f.zoom = v.zoom
           /\ f.maxIterations = v.maxIterations
           /\ f.colorScheme = v.colorScheme
           /\ f.juliaReal = v.juliaReal
           /\ f.juliaImag = v.juliaImag
           /\ ActiveTunables(f) = ActiveTunables(v)

GeometricRenders == {i \in Renders : renders[i].path = "geometric"}
Generated(r) == r.pc \in {"plot", "wait", "done"}

C23_ShaderMatchesKernel ==
    shader.pc = "done" =>
        LET r == shader.result[1]
        IN /\ r.gpu.raw = r.cpu.raw
           /\ r.gpu.smoothed <=> r.cpu.smoothed
           /\ r.gpu.smoothed => r.gpu.magnitude > 4

\* C28: the GPU path and the CPU path map the same screen pixel (column px,
\* row py from the top-left) to the same point of the plane.
C28_SamePixelSamePoint ==
    shader.pc = "mapped" =>
        /\ RatEq(shader.gpuPoint[1].x, shader.cpuPoint[1].x)
        /\ RatEq(shader.gpuPoint[1].y, shader.cpuPoint[1].y)

\* A render that has started and has not completed: one of its timers is
\* still to fire.
InFlight(r) ==
    /\ r.pc \in {"delay", "fill", "generate", "plot", "wait"}
    /\ r.path \notin {"rejected", "threw"}

\* C24: once every render that was started has put its frame on the canvas,
\* the canvas shows the frame of the render that was started last; an earlier
\* render never commits over a later one's frame.
C24_LatestFrameWins ==
    (\A i \in Renders : LoopFinished(renders[i])) =>
        canvasImage.render = Len(renders)

\* C25: all pixels of one committed CPU frame are computed from the same
\* render parameters; here, coloured by one colour scheme.
C25_OneParameterSetPerFrame ==
    \A i \in CpuRenders :
        \A k \in 1..Len(renders[i].committed) :
            LET data == renders[i].committed[k].data
            IN \A a, b \in DOMAIN data : data[a].scheme = data[b].scheme

\* C26: while a render is in flight the loading indicator is active.
C26_LoadingWhileInFlight ==
    (\E i \in Renders : InFlight(renders[i])) => loading

\* C27: in every CPU kernel the smoothing branch is entered only with a final
\* orbit magnitude x^2 + y^2 > 4: a raw count below maxIterations at loop
\* exit implies that the orbit has escaped, so log(x^2 + y^2) / 2 exceeds
\* log(2) and both logarithms of the smoothing formula have a positive
\* argument (the second one an argument above 1).
C27_SmoothingOnlyAfterEscape ==
    kernel.pc = "returned" =>
        /\ kernel.iteration < kernel.maxIterations
               => Magnitude(kernel.x, kernel.y) > 4
        /\ kernel.value[1].smoothed =>
               /\ kernel.iteration < kernel.maxIterations
               /\ kernel.value[1].magnitude = Magnitude(kernel.x, kernel.y)
               /\ kernel.value[1].magnitude > 4

\* The arbitrary-precision kernel smoothed a count after an orbit of at
\* least one step that had touched the circle of radius 2 on the way.
C27_Witness ==
    /\ kernel.pc = "returned"
    /\ kernel.family = "julia_hp"
    /\ kernel.value[1].smoothed
    /\ kernel.iteration >= 1
    /\ kernel.from # <<>>
    /\ Magnitude(kernel.from[1].x, kernel.from[1].y) = 4

\* C29: a started render of a known fractal type eventually completes, for
\* every canvas height >= 0: it has reported progress 100 and the loading
\* indicator is removed.
C29_RenderCompletes ==
    <>(/\ renders[1].pc = "done"
       /\ progress = Rat(100, 1)
       /\ ~loading)

\* C30 as claimed: debouncedRender keeps at most one timer pending, every
\* burst of inputs less than DebounceDelay apart starts exactly one render,
\* and a render starts only DebounceDelay or more after the last input.
C30_OneRenderPerBurst ==
    /\ Cardinality(debounce.timers) <= 1
    /\ \A n \in debounce.closed : n = 1
    /\ \A ms \in debounce.after : ms >= DebounceDelay

\* C30 as amended: at most one timer is pending, and it is the one that
\* this.colorDebounceTimer names; a render starts only DebounceDelay or more
\* after the last input; a burst starts at most one render, and until it
\* has started one its timer is pending, so that it starts none only if the
\* next burst's first input is handled before the timer has fired.
C30_AtMostOneRenderPerBurst ==
    /\ Cardinality(debounce.timers) <= 1
    /\ (debounce.burstInputs >= 1 /\ debounce.burstRenders = 0)
           => debounce.timers # {}
    /\ \A t \in debounce.timers :
           /\ t.id = debounce.colorDebounceTimer
           /\ t.due = debounce.lastInput + DebounceDelay
    /\ \A n \in debounce.closed : n <= 1
    /\ debounce.burstRenders <= 1
    /\ debounce.burstRenders = 1 => debounce.timers = {}
    /\ \A ms \in debounce.after : ms >= DebounceDelay

\* A burst of two inputs less than DebounceDelay apart has started its one
\* render.
C30_Witness ==
    /\ debounce.burstInputs >= 2
    /\ debounce.burstRenders = 1
    /\ Len(renders) = 2
====
